---- MODULE Spec2Model ----
(***************************************************************************)
(* A model of waterbutler/server/utils.py:                                 *)
(*                                                                         *)
(*   - parse_request_range, the wrapper around tornado's                   *)
(*     httputil._parse_request_range that turns a Range header into an     *)
(*     inclusive pair of byte positions (RangeSpec);                       *)
(*   - UtilMixin.write_stream, the loop that relays an upstream stream to  *)
(*     the response in chunks of settings.CHUNK_SIZE bytes (Spec).         *)
(*                                                                         *)
(* Text is a sequence of one-character strings, so that partition, strip   *)
(* and int() are computed on the characters as Python computes them.       *)
(* Python's None is the empty tuple and a present value v is <<v>>.        *)
(***************************************************************************)
EXTENDS Integers, Sequences, FiniteSets, TLC

VARIABLES
    header,            \* parse_request_range: the argument range_header
    rpc,               \* parse_request_range: "call" before, "done" after
    result,            \* parse_request_range: what the call produced
    pc,                \* write_stream, per handler: the control location
    chunk,             \* write_stream, per handler: the local `chunk`
    bytes_downloaded,  \* per handler: the instance attribute, None if unset
    cls_bytes_downloaded, \* UtilMixin.bytes_downloaded, the class attribute
    left,              \* per handler: bytes the upstream still holds
    total,             \* per handler: bytes the upstream held at the call
    base,              \* per handler: self.bytes_downloaded at the call
    accepted,          \* per handler: bytes whose write() returned, this call
    trace,             \* per handler: the I/O events of this call, in order
    calls,             \* per handler: write_stream calls made so far
    CHUNK_SIZE,        \* settings.CHUNK_SIZE
    temp,              \* per handler: the object bytes(chunk) is building
    written,           \* per handler: bytes whose write() returned, all calls
    request,           \* set_default_headers: self.request
    CORS_ALLOW_ORIGIN, \* settings.CORS_ALLOW_ORIGIN
    response_headers,  \* set_default_headers: the headers set on the response
    cpc                \* set_default_headers: "call" before, "done" after

vars == <<header, rpc, result, pc, chunk, bytes_downloaded,
          cls_bytes_downloaded, left, total, base, accepted, trace, calls,
          CHUNK_SIZE, temp, written, request, CORS_ALLOW_ORIGIN,
          response_headers, cpc>>

rangeVars == <<header, rpc, result>>

relayVars == <<pc, chunk, bytes_downloaded, cls_bytes_downloaded, left, total,
               base, accepted, trace, calls, CHUNK_SIZE, temp, written>>

corsVars == <<request, CORS_ALLOW_ORIGIN, response_headers, cpc>>

(***************************************************************************)
(* Bounds of the model.                                                    *)
(***************************************************************************)
MaxValueLen == 4
MaxNum == 22
MaxK == 4
MaxChunkSize == 3
MaxCalls == 2
ConcK == 2

(***************************************************************************)
(* Python values.                                                          *)
(***************************************************************************)
None == <<>>

Some(v) == <<v>>

Min(S) == CHOOSE x \in S : \A y \in S : x <= y

Max(S) == CHOOSE x \in S : \A y \in S : y <= x

(***************************************************************************)
(* Text: str.partition, str.strip, int().                                  *)
(***************************************************************************)
Whitespace == {" "}

Digits == {"0", "1", "2", "3", "4", "5", "6", "7", "8", "9"}

DigitVal(c) ==
    CASE c = "0" -> 0 [] c = "1" -> 1 [] c = "2" -> 2 [] c = "3" -> 3
      [] c = "4" -> 4 [] c = "5" -> 5 [] c = "6" -> 6 [] c = "7" -> 7
      [] c = "8" -> 8 [] c = "9" -> 9

\* s.partition(sep): the text before the first sep, sep, the text after it;
\* (s, "", "") when sep does not occur.
Partition(s, sep) ==
    LET at == {i \in 1..Len(s) : s[i] = sep}
    IN  IF at = {}
        THEN <<s, <<>>, <<>>>>
        ELSE <<SubSeq(s, 1, Min(at) - 1), <<sep>>, SubSeq(s, Min(at) + 1, Len(s))>>

\* s.strip(): leading and trailing whitespace removed.
Strip(s) ==
    LET keep == {i \in 1..Len(s) : s[i] \notin Whitespace}
    IN  IF keep = {} THEN <<>> ELSE SubSeq(s, Min(keep), Max(keep))

\* The characters of s that are digits, in order (int() ignores the single
\* underscores it allows between digits).
RECURSIVE DigitsOf(_)
DigitsOf(s) ==
    IF s = <<>> THEN <<>>
    ELSE IF Head(s) \in Digits THEN <<Head(s)>> \o DigitsOf(Tail(s))
    ELSE DigitsOf(Tail(s))

RECURSIVE Magnitude(_)
Magnitude(ds) ==
    IF ds = <<>> THEN 0
    ELSE 10 * Magnitude(SubSeq(ds, 1, Len(ds) - 1)) + DigitVal(ds[Len(ds)])

\* Whether int() accepts the unsigned text s: digits, with single underscores
\* only between digits.
IsDecimal(s) ==
    /\ s # <<>>
    /\ \A i \in 1..Len(s) : s[i] \in Digits \cup {"_"}
    /\ s[1] \in Digits
    /\ s[Len(s)] \in Digits
    /\ \A i \in 1..(Len(s) - 1) : ~(s[i] = "_" /\ s[i + 1] = "_")

\* int(s) for a str s: surrounding whitespace is dropped, one sign is allowed;
\* anything else raises ValueError.
PyInt(s) ==
    LET t == Strip(s)
        signed == t # <<>> /\ t[1] \in {"+", "-"}
        body == IF signed THEN Tail(t) ELSE t
    IN  IF IsDecimal(body)
        THEN [ok |-> TRUE,
              val |-> IF signed /\ t[1] = "-"
                      THEN 0 - Magnitude(DigitsOf(body))
                      ELSE Magnitude(DigitsOf(body))]
        ELSE [ok |-> FALSE, val |-> 0]

\* str(n) for n >= 0.
RECURSIVE Dec(_)
Dec(n) ==
    LET d == <<"0", "1", "2", "3", "4", "5", "6", "7", "8", "9">>
    IN  IF n < 10 THEN <<d[n + 1]>> ELSE Dec(n \div 10) \o <<d[(n % 10) + 1]>>

(***************************************************************************)
(* What a call produces: a returned value or a raised exception.           *)
(***************************************************************************)
Return(v) == [kind |-> "return", exc |-> "", message |-> <<>>, value |-> v]

Raise(e, msg) == [kind |-> "raise", exc |-> e, message |-> msg, value |-> None]

NotCalled == [kind |-> "none", exc |-> "", message |-> <<>>, value |-> None]

(***************************************************************************)
(* tornado.httputil._parse_request_range, the syntactic stage.  It returns  *)
(* None or (start, end) with end exclusive ("bytes=0-1" is (0, 2)), and    *)
(* turns the suffix form "bytes=-N" into (-N, None), "bytes=-0" into       *)
(* (None, 0).  Its first statement is range_header.partition("="), which   *)
(* raises AttributeError when range_header is None.                        *)
(***************************************************************************)
BytesUnit == <<"b", "y", "t", "e", "s">>

\* tornado.httputil._int_or_none: None for blank text, int(val) otherwise.
IntOrNone(val) ==
    LET v == Strip(val)
    IN  IF v = <<>>
        THEN [ok |-> TRUE, val |-> None]
        ELSE [ok |-> PyInt(v).ok, val |-> Some(PyInt(v).val)]

tornado_parse_request_range(range_header) ==
    IF range_header = None
    THEN Raise("AttributeError", <<"'NoneType' object has no attribute 'partition'">>)
    ELSE
      LET p == Partition(range_header[1], "=")
          unit == Strip(p[1])
          value == Strip(p[3])
          q == Partition(value, "-")
          start == IntOrNone(q[1])
          end == IntOrNone(q[3])
      IN  IF unit # BytesUnit THEN Return(None)
          ELSE IF ~start.ok \/ ~end.ok THEN Return(None)
          ELSE IF end.val = None THEN Return(Some(<<start.val, None>>))
          ELSE IF start.val # None
               THEN Return(Some(<<start.val, Some(end.val[1] + 1)>>))
          ELSE IF end.val[1] # 0
               THEN Return(Some(<<Some(0 - end.val[1]), None>>))
          ELSE Return(Some(<<None, end.val>>))

(***************************************************************************)
(* parse_request_range.                                                    *)
(***************************************************************************)
\* 'Unsupported Range header format: {}'.format(range_header)
ErrorMessage(range_header) ==
    <<"Unsupported Range header format: ">>
        \o (IF range_header = None THEN <<"None">> ELSE range_header[1])

\* A parser that lets a negative start through.
UnsupportedStart_NegativeAllowed(start) == start = None

\* line 62: start is None or start < 0
UnsupportedStart(start) == start = None \/ start[1] < 0

\* A parser that keeps tornado's exclusive end.
InclusiveEnd_NotDecremented(end) == end

\* line 66: end -= 1
InclusiveEnd(end) == end - 1

\* A parser that compares the exclusive end with the start.
EndBeforeStart_Exclusive(start, end) == end + 1 < start

\* line 67: end < start
EndBeforeStart(start, end) == end < start

\* A parser that takes an open-ended range for no range.
ReturnPair_OpenEndDropped(start, end) ==
    IF end = None THEN Return(None) ELSE Return(Some(<<start, end>>))

\* line 70: return (start, end)
ReturnPair(start, end) == Return(Some(<<start, end>>))

\* lines 65-70, with start an integer and end an integer or None.
NormalizeEnd(start, end, range_header) ==
    IF end # None
    THEN IF EndBeforeStart(start, InclusiveEnd(end[1]))
         THEN Raise("InvalidHeaderError", ErrorMessage(range_header))
         ELSE ReturnPair(start, Some(InclusiveEnd(end[1])))
    ELSE ReturnPair(start, end)

parse_request_range(range_header) ==
    LET request_range == tornado_parse_request_range(range_header)
    IN  IF request_range.kind = "raise" THEN request_range
        ELSE IF request_range.value = None THEN Return(None)
        ELSE
          LET start == request_range.value[1][1]
              end == request_range.value[1][2]
          IN  IF start = None /\ end = None THEN Return(None)
              ELSE IF UnsupportedStart(start)
                   THEN Raise("InvalidHeaderError", ErrorMessage(range_header))
              ELSE NormalizeEnd(start[1], end, range_header)

(***************************************************************************)
(* The headers the parser is run on: every text of at most MaxValueLen     *)
(* characters of ValueAlphabet after each prefix, the literal examples of  *)
(* the documentation, and the absent header.                               *)
(***************************************************************************)
ValueAlphabet == {"0", "1", "2", "-", ",", " ", "x"}

Values == UNION {[1..n -> ValueAlphabet] : n \in 0..MaxValueLen}

BytesEq == BytesUnit \o <<"=">>

Prefixes ==
    { BytesEq,
      <<" ">> \o BytesUnit \o <<" ", "=">>,
      <<"i", "t", "e", "m", "s", "=">>,
      <<>> }

Examples ==
    { BytesEq \o <<"0", "-", "4", "9", "9">>,
      BytesEq \o <<"1", "0", "-", "5">>,
      BytesEq \o <<"5", "-">>,
      BytesEq \o <<"-", "5">>,
      BytesEq \o <<"0", "-", "1", ",", "5", "-", "6">>,
      BytesUnit \o <<":", "0", "-", "1", ",", "5", "-", "6">>,
      BytesEq \o <<"+", "1", "-", "2">>,
      BytesEq \o <<"1", "_", "0", "-", "1", "_", "1">>,
      BytesEq \o <<"1", "-", "2", "=">>,
      <<"B", "Y", "T", "E", "S", "=", "0", "-", "1">>,
      <<"g", "a", "r", "b", "a", "g", "e">>,
      BytesUnit }

Headers ==
    {None} \cup {Some(p \o v) : p \in Prefixes, v \in Values}
           \cup {Some(e) : e \in Examples}

(***************************************************************************)
(* The handlers write_stream runs on.                                      *)
(***************************************************************************)
Handlers == {"h1", "h2"}

RelayIdle ==
    /\ pc = [h \in Handlers |-> "idle"]
    /\ chunk = [h \in Handlers |-> None]
    /\ bytes_downloaded = [h \in Handlers |-> None]
    /\ cls_bytes_downloaded = 0
    /\ left = [h \in Handlers |-> 0]
    /\ total = [h \in Handlers |-> 0]
    /\ base = [h \in Handlers |-> 0]
    /\ accepted = [h \in Handlers |-> 0]
    /\ trace = [h \in Handlers |-> <<>>]
    /\ calls = [h \in Handlers |-> 0]
    /\ temp = [h \in Handlers |-> None]
    /\ written = [h \in Handlers |-> 0]

\* set_default_headers is not called.
CorsIdle ==
    /\ request = [method |-> "GET", origin |-> None, cookies |-> FALSE,
                  authorization |-> None]
    /\ CORS_ALLOW_ORIGIN = [str |-> TRUE, value |-> "*", members |-> {}]
    /\ response_headers = {}
    /\ cpc = "idle"

(***************************************************************************)
(* RangeSpec: parse_request_range applied to each header.                  *)
(***************************************************************************)
RangeInit ==
    /\ header \in Headers
    /\ rpc = "call"
    /\ result = NotCalled
    /\ RelayIdle
    /\ CHUNK_SIZE = 1
    /\ CorsIdle

ParseRequestRange ==
    /\ rpc = "call"
    /\ result' = parse_request_range(header)
    /\ rpc' = "done"
    /\ UNCHANGED <<header, relayVars, corsVars>>

RangeNext == ParseRequestRange

RangeSpec == RangeInit /\ [][RangeNext]_vars

(***************************************************************************)
(* UtilMixin.write_stream.  One action per statement of the loop; the two  *)
(* awaits (stream.read, self.flush) and self.write are where the upstream  *)
(* and the response decide what happens.                                   *)
(*                                                                         *)
(* Control locations: "idle" (no call made), "read" (line 125), "check"    *)
(* (126), "convert" (129), "rebind" (130), "write" (131), "count" (132),   *)
(* "del" (133),                                                            *)
(* "flush" (134), and where a call ends: "Exhausted" (the break of line    *)
(* 127, then the normal return), "PeerDisconnected" (the return of line    *)
(* 138), "Raised" (an exception left write_stream).                        *)
(***************************************************************************)
Terminal == {"Exhausted", "PeerDisconnected", "Raised"}

\* What stream.read, self.write and self.flush may raise: tornado's
\* StreamClosedError, or anything else.
Exceptions == {"StreamClosedError", "OtherError"}

\* An I/O event: the operation, how it ended ("data", "eof", "ok" or the
\* exception it raised) and the number of bytes it moved.
Event(op, res, n) == [op |-> op, res |-> res, n |-> n]

\* self.bytes_downloaded as Python reads it: the instance attribute when it is
\* set, the class attribute of line 116 otherwise.
BytesDownloaded(h) ==
    IF bytes_downloaded[h] = None THEN cls_bytes_downloaded
    ELSE bytes_downloaded[h][1]

\* A relay without the except clause.
ExceptClause_NoHandler(exc) == "Raised"

\* A relay whose except clause goes on with the loop.
ExceptClause_Retry(exc) == "read"

\* A relay that ends a closed connection in a state of its own.
ExceptClause_Cancelled(exc) ==
    IF exc = "StreamClosedError" THEN "Cancelled" ELSE "Raised"

\* A relay whose except clause catches every exception.
ExceptClause_CatchAll(exc) == "PeerDisconnected"

\* lines 123, 135-138: the except clause decides where a raised exception
\* leaves the call.
ExceptClause(exc) ==
    IF exc = "StreamClosedError" THEN "PeerDisconnected" ELSE "Raised"

\* A relay that takes a short read for the end of the stream.
IsEmpty_ShortRead(c) == c.len < CHUNK_SIZE

\* line 126: `not chunk`
IsEmpty(c) == c.len = 0

\* lines 129-130: a bytearray becomes bytes of the same length.
ConvertChunk(c) ==
    IF c.type = "bytearray" THEN [type |-> "bytes", len |-> c.len] ELSE c

\* A relay that counts a full chunk for every write.
CountedLen_ChunkSize(c) == CHUNK_SIZE

\* line 132: len(chunk)
CountedLen(c) == c.len

\* A relay that adds to the attribute of the class, which the handlers share.
AddToCounter_ClassAttribute(h, n) ==
    [instance |-> bytes_downloaded, class |-> cls_bytes_downloaded + n]

\* line 132: self.bytes_downloaded += n reads the attribute through self and
\* binds the sum on the instance; the class attribute is left as it is.
AddToCounter(h, n) ==
    [instance |-> [bytes_downloaded EXCEPT ![h] = Some(BytesDownloaded(h) + n)],
     class |-> cls_bytes_downloaded]

\* A relay without the del statement.
DelChunk_Missing(c) == c

\* line 133: del chunk unbinds the name.
DelChunk(c) == None

\* A relay that does not wait for the flush.
AfterDel_NoFlush == "read"

\* lines 133-134: after del chunk comes await self.flush().
AfterDel == "flush"

\* The caller invokes write_stream(stream) on handler h, with a stream that
\* holds k bytes.
StartCall(h, k) ==
    /\ pc[h] \in {"idle"} \cup Terminal
    /\ calls[h] < MaxCalls
    /\ pc' = [pc EXCEPT ![h] = "read"]
    /\ calls' = [calls EXCEPT ![h] = @ + 1]
    /\ left' = [left EXCEPT ![h] = k]
    /\ total' = [total EXCEPT ![h] = k]
    /\ base' = [base EXCEPT ![h] = BytesDownloaded(h)]
    /\ accepted' = [accepted EXCEPT ![h] = 0]
    /\ trace' = [trace EXCEPT ![h] = <<>>]
    /\ chunk' = [chunk EXCEPT ![h] = None]
    /\ UNCHANGED <<bytes_downloaded, cls_bytes_downloaded, CHUNK_SIZE, temp, written, rangeVars, corsVars>>

\* line 125: chunk = await stream.read(settings.CHUNK_SIZE).  The stream
\* returns between 1 and CHUNK_SIZE of the bytes it still holds, as bytes or as
\* a bytearray; nothing at end of stream; or it raises.
Read(h) ==
    /\ pc[h] = "read"
    /\ \/ \E n \in 1..CHUNK_SIZE, t \in {"bytes", "bytearray"} :
            /\ n <= left[h]
            /\ chunk' = [chunk EXCEPT ![h] = Some([type |-> t, len |-> n])]
            /\ left' = [left EXCEPT ![h] = @ - n]
            /\ trace' = [trace EXCEPT ![h] = Append(@, Event("read", "data", n))]
            /\ pc' = [pc EXCEPT ![h] = "check"]
       \/ /\ left[h] = 0
          /\ chunk' = [chunk EXCEPT ![h] = Some([type |-> "bytes", len |-> 0])]
          /\ trace' = [trace EXCEPT ![h] = Append(@, Event("read", "eof", 0))]
          /\ pc' = [pc EXCEPT ![h] = "check"]
          /\ UNCHANGED left
       \/ \E exc \in Exceptions :
            /\ chunk' = [chunk EXCEPT ![h] = None]
            /\ trace' = [trace EXCEPT ![h] = Append(@, Event("read", exc, 0))]
            /\ pc' = [pc EXCEPT ![h] = ExceptClause(exc)]
            /\ UNCHANGED left
    /\ UNCHANGED <<bytes_downloaded, cls_bytes_downloaded, total, base,
                   accepted, calls, CHUNK_SIZE, temp, written, rangeVars, corsVars>>

\* lines 126-127: if not chunk: break
Check(h) ==
    /\ pc[h] = "check"
    /\ IF IsEmpty(chunk[h][1])
       THEN /\ pc' = [pc EXCEPT ![h] = "Exhausted"]
            /\ chunk' = [chunk EXCEPT ![h] = None]
       ELSE /\ pc' = [pc EXCEPT ![h] = "convert"]
            /\ UNCHANGED chunk
    /\ UNCHANGED <<bytes_downloaded, cls_bytes_downloaded, left, total, base,
                   accepted, trace, calls, CHUNK_SIZE, temp, written, rangeVars, corsVars>>

\* lines 129-130: if isinstance(chunk, bytearray): ... bytes(chunk).  The call
\* builds a bytes object of the same length while `chunk` still names the
\* bytearray.
Convert(h) ==
    /\ pc[h] = "convert"
    /\ IF chunk[h][1].type = "bytearray"
       THEN /\ temp' = [temp EXCEPT ![h] = Some(ConvertChunk(chunk[h][1]))]
            /\ pc' = [pc EXCEPT ![h] = "rebind"]
       ELSE /\ pc' = [pc EXCEPT ![h] = "write"]
            /\ UNCHANGED temp
    /\ UNCHANGED <<chunk, bytes_downloaded, cls_bytes_downloaded, left, total,
                   base, accepted, trace, calls, CHUNK_SIZE, written,
                   rangeVars, corsVars>>

\* line 130: chunk = <the bytes object>.  The name is rebound and the
\* bytearray is released.
Rebind(h) ==
    /\ pc[h] = "rebind"
    /\ chunk' = [chunk EXCEPT ![h] = temp[h]]
    /\ temp' = [temp EXCEPT ![h] = None]
    /\ pc' = [pc EXCEPT ![h] = "write"]
    /\ UNCHANGED <<bytes_downloaded, cls_bytes_downloaded, left, total, base,
                   accepted, trace, calls, CHUNK_SIZE, written, rangeVars,
                   corsVars>>

\* line 131: self.write(chunk).  The response takes the chunk, or raises; it
\* does not take a bytearray (the comment of line 128).
Write(h) ==
    /\ pc[h] = "write"
    /\ \/ /\ chunk[h][1].type = "bytes"
          /\ accepted' = [accepted EXCEPT ![h] = @ + chunk[h][1].len]
          /\ trace' = [trace EXCEPT ![h] = Append(@, Event("write", "ok", chunk[h][1].len))]
          /\ written' = [written EXCEPT ![h] = @ + chunk[h][1].len]
          /\ pc' = [pc EXCEPT ![h] = "count"]
          /\ UNCHANGED chunk
       \/ \E exc \in Exceptions :
            /\ chunk[h][1].type = "bytearray" => exc = "OtherError"
            /\ trace' = [trace EXCEPT ![h] = Append(@, Event("write", exc, 0))]
            /\ pc' = [pc EXCEPT ![h] = ExceptClause(exc)]
            /\ chunk' = [chunk EXCEPT ![h] = None]
            /\ UNCHANGED <<accepted, written>>
    /\ UNCHANGED <<bytes_downloaded, cls_bytes_downloaded, left, total, base,
                   calls, CHUNK_SIZE, temp, rangeVars, corsVars>>

\* line 132: self.bytes_downloaded += len(chunk)
Count(h) ==
    /\ pc[h] = "count"
    /\ bytes_downloaded' = AddToCounter(h, CountedLen(chunk[h][1])).instance
    /\ cls_bytes_downloaded' = AddToCounter(h, CountedLen(chunk[h][1])).class
    /\ pc' = [pc EXCEPT ![h] = "del"]
    /\ UNCHANGED <<chunk, left, total, base, accepted,
                   trace, calls, CHUNK_SIZE, temp, written, rangeVars, corsVars>>

\* line 133: del chunk
Del(h) ==
    /\ pc[h] = "del"
    /\ chunk' = [chunk EXCEPT ![h] = DelChunk(@)]
    /\ pc' = [pc EXCEPT ![h] = AfterDel]
    /\ UNCHANGED <<bytes_downloaded, cls_bytes_downloaded, left, total, base,
                   accepted, trace, calls, CHUNK_SIZE, temp, written, rangeVars, corsVars>>

\* line 134: await self.flush().  The wait completes, or raises.
Flush(h) ==
    /\ pc[h] = "flush"
    /\ \/ /\ trace' = [trace EXCEPT ![h] = Append(@, Event("flush", "ok", 0))]
          /\ pc' = [pc EXCEPT ![h] = "read"]
       \/ \E exc \in Exceptions :
            /\ trace' = [trace EXCEPT ![h] = Append(@, Event("flush", exc, 0))]
            /\ pc' = [pc EXCEPT ![h] = ExceptClause(exc)]
    /\ UNCHANGED <<chunk, bytes_downloaded, cls_bytes_downloaded, left, total,
                   base, accepted, calls, CHUNK_SIZE, temp, written, rangeVars, corsVars>>

(***************************************************************************)
(* Spec: write_stream called, up to MaxCalls times, on one handler.        *)
(***************************************************************************)
Init ==
    /\ RelayIdle
    /\ CHUNK_SIZE \in 1..MaxChunkSize
    /\ header = None
    /\ rpc = "idle"
    /\ result = NotCalled
    /\ CorsIdle

Next ==
    \E h \in {"h1"} :
        \/ \E k \in 0..MaxK : StartCall(h, k)
        \/ Read(h)
        \/ Check(h)
        \/ Convert(h)
        \/ Rebind(h)
        \/ Write(h)
        \/ Count(h)
        \/ Del(h)
        \/ Flush(h)

Spec == Init /\ [][Next]_vars

(***************************************************************************)
(* FairSpec: the same, where a call that has begun goes on: every pending  *)
(* read and flush completes (with data, the end of the stream or an        *)
(* exception) and the statements between two awaits run.                   *)
(***************************************************************************)
RelayStep(h) ==
    \/ Read(h)
    \/ Check(h)
    \/ Convert(h)
    \/ Rebind(h)
    \/ Write(h)
    \/ Count(h)
    \/ Del(h)
    \/ Flush(h)

FairSpec == Init /\ [][Next]_vars /\ WF_vars(RelayStep("h1"))

(***************************************************************************)
(* ConcSpec: two handlers, each serving its own request, relay on the one  *)
(* thread of the event loop.  A coroutine gives the thread away only at    *)
(* its awaits (lines 125 and 134), so a handler takes a step only while    *)
(* every other handler is outside a call or suspended at an await.         *)
(***************************************************************************)
Suspended(h) == pc[h] \in {"idle", "read", "flush"} \cup Terminal

HasTheThread(h) == \A g \in Handlers \ {h} : Suspended(g)

ConcInit ==
    /\ RelayIdle
    /\ CHUNK_SIZE = 1
    /\ header = None
    /\ rpc = "idle"
    /\ result = NotCalled
    /\ CorsIdle

ConcNext ==
    \E h \in Handlers :
        /\ HasTheThread(h)
        /\ \/ \E k \in 0..ConcK : StartCall(h, k)
           \/ Read(h)
           \/ Check(h)
           \/ Convert(h)
           \/ Rebind(h)
           \/ Write(h)
           \/ Count(h)
           \/ Del(h)
           \/ Flush(h)

ConcSpec == ConcInit /\ [][ConcNext]_vars

(***************************************************************************)
(* CORsMixin.set_default_headers (lines 75-106).  A request is its method, *)
(* its Origin and Authorization headers (None when absent) and whether it  *)
(* carries cookies; settings.CORS_ALLOW_ORIGIN is a str (value) or a       *)
(* collection of origins (members); response_headers holds the headers the *)
(* call has set.                                                           *)
(***************************************************************************)
CORS_ACCEPT_HEADERS ==
    <<"Range", "Content-Type", "Authorization", "Cache-Control", "X-Requested-With">>

CORS_EXPOSE_HEADERS ==
    <<"Range", "Accept-Ranges", "Content-Range", "Content-Length", "Content-Encoding">>

\* sep.join(items)
RECURSIVE Join(_, _)
Join(sep, items) ==
    IF items = <<>> THEN ""
    ELSE IF Len(items) = 1 THEN items[1]
    ELSE items[1] \o sep \o Join(sep, Tail(items))

\* The truth value Python gives a header value that headers.get returned.
Truthy(o) == o # None /\ o[1] # ""

\* self.set_header(name, value): the value replaces the one the name had.
SetHeader(hs, name, value) ==
    {x \in hs : x.name # name} \cup {[name |-> name, value |-> value]}

\* lines 75-80
cross_origin_is_allowed(req) ==
    IF req.method = "OPTIONS" THEN TRUE
    ELSE IF ~req.cookies /\ Truthy(req.authorization) THEN TRUE
    ELSE FALSE

\* A mixin that hands the configured str out as it is, the wildcard too.
AllowedOrigin_WildcardEmitted(req, cfg) ==
    IF cross_origin_is_allowed(req) THEN Some(req.origin[1])
    ELSE IF cfg.str THEN Some(cfg.value)
    ELSE IF req.origin[1] \in cfg.members THEN Some(req.origin[1])
    ELSE None

\* lines 86-98: allowed_origin
AllowedOrigin(req, cfg) ==
    IF cross_origin_is_allowed(req) THEN Some(req.origin[1])
    ELSE IF cfg.str
         THEN IF cfg.value = "*" THEN Some(req.origin[1]) ELSE Some(cfg.value)
    ELSE IF req.origin[1] \in cfg.members THEN Some(req.origin[1])
    ELSE None

\* lines 100-101
WithAllowOrigin(hs, allowed_origin) ==
    IF allowed_origin # None
    THEN SetHeader(hs, "Access-Control-Allow-Origin", allowed_origin[1])
    ELSE hs

\* lines 103-106
WithFixedHeaders(hs) ==
    SetHeader(
      SetHeader(
        SetHeader(
          SetHeader(hs, "Access-Control-Allow-Credentials", "true"),
          "Access-Control-Allow-Headers", Join(", ", CORS_ACCEPT_HEADERS)),
        "Access-Control-Expose-Headers", Join(", ", CORS_EXPOSE_HEADERS)),
      "Cache-control", "no-store, no-cache, must-revalidate, max-age=0")

\* lines 82-106
SetDefaultHeaders ==
    /\ cpc = "call"
    /\ cpc' = "done"
    /\ response_headers' =
          IF ~Truthy(request.origin) THEN response_headers
          ELSE WithFixedHeaders(
                 WithAllowOrigin(response_headers,
                                 AllowedOrigin(request, CORS_ALLOW_ORIGIN)))
    /\ UNCHANGED <<request, CORS_ALLOW_ORIGIN, rangeVars, relayVars>>

Methods == {"GET", "OPTIONS"}

Origins == {None, Some(""), Some("a"), Some("b"), Some("*")}

Authorizations == {None, Some(""), Some("tok")}

Requests ==
    [method : Methods, origin : Origins, cookies : BOOLEAN,
     authorization : Authorizations]

Configurations ==
    {[str |-> TRUE, value |-> v, members |-> {}] : v \in {"*", "a", "c"}}
    \cup {[str |-> FALSE, value |-> "", members |-> m] :
             m \in {{}, {"a"}, {"a", "b"}, {"*"}}}

CorsInit ==
    /\ request \in Requests
    /\ CORS_ALLOW_ORIGIN \in Configurations
    /\ response_headers = {}
    /\ cpc = "call"
    /\ RelayIdle
    /\ CHUNK_SIZE = 1
    /\ header = None
    /\ rpc = "idle"
    /\ result = NotCalled

CorsNext == SetDefaultHeaders

CorsSpec == CorsInit /\ [][CorsNext]_vars

(***************************************************************************)
(* Headers of the forms the claims name.                                   *)
(***************************************************************************)
Nums == 0..MaxNum

\* 'bytes=a-b'
ClosedHeader(a, b) == Some(BytesEq \o Dec(a) \o <<"-">> \o Dec(b))

\* 'bytes=a-'
OpenHeader(a) == Some(BytesEq \o Dec(a) \o <<"-">>)

\* 'bytes=-N'
SuffixHeader(n) == Some(BytesEq \o <<"-">> \o Dec(n))

\* The headers of each form, each with the numbers it is written from.
ClosedCases == {[a |-> a, b |-> b, header |-> ClosedHeader(a, b)] : a \in Nums, b \in Nums}

OpenCases == {[a |-> a, header |-> OpenHeader(a)] : a \in Nums}

SuffixCases == {[n |-> n, header |-> SuffixHeader(n)] : n \in Nums}

InvalidHeader(h) == Raise("InvalidHeaderError", <<"Unsupported Range header format: ">> \o h[1])

(***************************************************************************)
(* The events of the current call of handler h.                            *)
(***************************************************************************)
EventsAt(h, ops, ress) ==
    {i \in 1..Len(trace[h]) : trace[h][i].op \in ops /\ trace[h][i].res \in ress}

LastEvent(h) == trace[h][Len(trace[h])]

\* No read, write or flush of the call has raised.
NoFailure(h) == EventsAt(h, {"read", "write", "flush"}, Exceptions) = {}

Writes(h) == Cardinality(EventsAt(h, {"write"}, {"ok", "StreamClosedError", "OtherError"}))

Flushes(h) == Cardinality(EventsAt(h, {"flush"}, {"ok", "StreamClosedError", "OtherError"}))

NonEmptyReads(h) == Cardinality(EventsAt(h, {"read"}, {"data"}))

\* Every non-empty read but the last returned exactly CHUNK_SIZE bytes.
FullReads(h) ==
    \A i \in EventsAt(h, {"read"}, {"data"}) :
        \/ trace[h][i].n = CHUNK_SIZE
        \/ i = Max(EventsAt(h, {"read"}, {"data"}))

CeilDiv(k, c) == (k + c - 1) \div c

\* The increase of self.bytes_downloaded since the call began.
Increase(h) == BytesDownloaded(h) - base[h]

(***************************************************************************)
(* C1: for 0 <= a <= b, parse_request_range('bytes=a-b') returns the       *)
(* inclusive pair (a, b).                                                  *)
(***************************************************************************)
C1_ClosedRangeInclusive ==
    rpc = "done" =>
        \A c \in ClosedCases :
            (c.a <= c.b /\ header = c.header)
                => result = Return(Some(<<c.a, Some(c.b)>>))

C1_Witness ==
    /\ rpc = "done"
    /\ header = ClosedHeader(1, 12)
    /\ result = Return(Some(<<1, Some(12)>>))

(***************************************************************************)
(* C2: a call whose reads, writes and flushes all succeed, over an         *)
(* upstream of K bytes, ends Exhausted with the byte counter increased by  *)
(* exactly K.                                                              *)
(***************************************************************************)
C2_ExhaustedCountsK ==
    \A h \in Handlers :
        (pc[h] \in Terminal /\ NoFailure(h))
            => /\ pc[h] = "Exhausted"
               /\ LastEvent(h) = Event("read", "eof", 0)
               /\ left[h] = 0
               /\ Increase(h) = total[h]

C2_Witness ==
    /\ pc["h1"] = "Exhausted"
    /\ NoFailure("h1")
    /\ total["h1"] = 3
    /\ base["h1"] > 0
    /\ CHUNK_SIZE = 2
    /\ Increase("h1") = 3

(***************************************************************************)
(* C3: when self.write or self.flush raises StreamClosedError, the call    *)
(* returns normally (PeerDisconnected) and the byte counter has increased  *)
(* by the number of bytes the response accepted.                           *)
(***************************************************************************)
C3_PeerClosedReturnsNormally ==
    \A h \in Handlers :
        \A i \in EventsAt(h, {"write", "flush"}, {"StreamClosedError"}) :
            /\ i = Len(trace[h])
            /\ pc[h] = "PeerDisconnected"
            /\ Increase(h) = accepted[h]

C3_Witness ==
    /\ pc["h1"] = "PeerDisconnected"
    /\ LastEvent("h1") = Event("flush", "StreamClosedError", 0)
    /\ accepted["h1"] = 2
    /\ total["h1"] = 4
    /\ Increase("h1") = 2

C3_WitnessAtWrite ==
    /\ pc["h1"] = "PeerDisconnected"
    /\ LastEvent("h1") = Event("write", "StreamClosedError", 0)
    /\ accepted["h1"] = 2
    /\ total["h1"] = 4
    /\ Increase("h1") = 2

(***************************************************************************)
(* C4: every exception stream.read raises leaves write_stream as an error; *)
(* none ends in a normal return.                                           *)
(***************************************************************************)
C4_ReadFailurePropagates ==
    \A h \in Handlers :
        \A i \in EventsAt(h, {"read"}, Exceptions) :
            /\ i = Len(trace[h])
            /\ pc[h] = "Raised"

(***************************************************************************)
(* C5: an exception of self.write or self.flush other than                 *)
(* StreamClosedError leaves write_stream as an error, and is the last I/O  *)
(* event of the call.                                                      *)
(***************************************************************************)
C5_OtherDownstreamFailurePropagates ==
    \A h \in Handlers :
        \A i \in EventsAt(h, {"write", "flush"}, {"OtherError"}) :
            /\ i = Len(trace[h])
            /\ pc[h] = "Raised"

C5_Witness ==
    /\ pc["h1"] = "Raised"
    /\ LastEvent("h1") = Event("flush", "OtherError", 0)
    /\ Len(trace["h1"]) = 6
    /\ left["h1"] > 0

(***************************************************************************)
(* C6: when the syntactic stage returns a pair whose start is absent while *)
(* its end is given, or whose start is negative, and for 'bytes=-N' with   *)
(* N >= 0, parse_request_range raises InvalidHeaderError with the message  *)
(* 'Unsupported Range header format: ' followed by the header.             *)
(***************************************************************************)
C6_MissingOrNegativeStartRejected ==
    (rpc = "done" /\ header # None) =>
        LET stage == tornado_parse_request_range(header)
            start == stage.value[1][1]
            end == stage.value[1][2]
        IN  /\ ( /\ stage.kind = "return"
                 /\ stage.value # None
                 /\ \/ start = None /\ end # None
                    \/ start # None /\ start[1] < 0 )
                    => result = InvalidHeader(header)
            /\ \A c \in SuffixCases :
                 header = c.header => result = InvalidHeader(header)

C6_Witness ==
    /\ rpc = "done"
    /\ header = SuffixHeader(12)
    /\ result = InvalidHeader(SuffixHeader(12))

(***************************************************************************)
(* C7: for a >= 0 and b < a, parse_request_range('bytes=a-b') raises       *)
(* InvalidHeaderError with the header in its message.                      *)
(***************************************************************************)
C7_EndBeforeStartRejected ==
    rpc = "done" =>
        \A c \in ClosedCases :
            (c.b < c.a /\ header = c.header)
                => result = InvalidHeader(header)

C7_Witness ==
    /\ rpc = "done"
    /\ header = ClosedHeader(1, 0)
    /\ result = InvalidHeader(ClosedHeader(1, 0))

(***************************************************************************)
(* C8: parse_request_range returns None, raising nothing, for a header     *)
(* that is absent, empty, of an unrecognised format (no '=', a unit other  *)
(* than bytes, a bound that is not a number), a multi-range, or 'bytes='.  *)
(***************************************************************************)
NumericChars == Digits \cup {"-", "+", "_"} \cup Whitespace

NoRangeText(s) ==
    \/ s = <<>>
    \/ \A i \in 1..Len(s) : s[i] # "="
    \/ Strip(Partition(s, "=")[1]) # BytesUnit
    \/ \E i \in 1..Len(s) : s[i] = ","
    \/ \E i \in 1..Len(Partition(s, "=")[3]) :
          Partition(s, "=")[3][i] \notin NumericChars
    \/ s = BytesEq

C8_NoRangeForUnrecognised ==
    (rpc = "done" /\ (header = None \/ NoRangeText(header[1])))
        => result = Return(None)

\* The same for every header that is present.
C8_NoRangeForUnrecognisedText ==
    (rpc = "done" /\ header # None /\ NoRangeText(header[1]))
        => result = Return(None)

(***************************************************************************)
(* C9: for a >= 0, parse_request_range('bytes=a-') returns (a, None).      *)
(***************************************************************************)
C9_OpenEndedKept ==
    rpc = "done" =>
        \A c \in OpenCases :
            header = c.header => result = Return(Some(<<c.a, None>>))

C9_Witness ==
    /\ rpc = "done"
    /\ header = OpenHeader(10)
    /\ result = Return(Some(<<10, None>>))

(***************************************************************************)
(* C10, as claimed: a call without failures over an upstream of K bytes    *)
(* makes ceil(K / CHUNK_SIZE) writes.                                      *)
(***************************************************************************)
C10_WritesAreCeilOfKOverC ==
    \A h \in Handlers :
        (pc[h] = "Exhausted" /\ NoFailure(h))
            => Writes(h) = CeilDiv(total[h], CHUNK_SIZE)

(***************************************************************************)
(* C10, amended: a call without failures over an upstream of K bytes makes *)
(* one write and one flush per non-empty read, so between                  *)
(* ceil(K / CHUNK_SIZE) and K writes; exactly ceil(K / CHUNK_SIZE), and 0  *)
(* for K = 0, when every non-empty read but the last returned CHUNK_SIZE   *)
(* bytes.                                                                  *)
(***************************************************************************)
C10_OneWritePerNonEmptyRead ==
    \A h \in Handlers :
        (pc[h] = "Exhausted" /\ NoFailure(h))
            => /\ Writes(h) = NonEmptyReads(h)
               /\ Flushes(h) = Writes(h)
               /\ CeilDiv(total[h], CHUNK_SIZE) <= Writes(h)
               /\ Writes(h) <= total[h]
               /\ FullReads(h) => Writes(h) = CeilDiv(total[h], CHUNK_SIZE)
               /\ total[h] = 0 => Writes(h) = 0

C10_Witness ==
    /\ pc["h1"] = "Exhausted"
    /\ NoFailure("h1")
    /\ total["h1"] = 3
    /\ CHUNK_SIZE = 2
    /\ FullReads("h1")
    /\ Writes("h1") = 2

(***************************************************************************)
(* C11: the I/O events of one call are strictly sequential: they come in   *)
(* the order read, write, flush, read, ...; a read other than the first is *)
(* issued only after the flush of the chunk before it has completed, which *)
(* itself follows the write of that chunk; so every trace is a prefix of   *)
(* (read, write, flush)* read, and the trace of a call that ends Exhausted *)
(* is exactly of that shape.                                               *)
(***************************************************************************)
LoopOrder == <<"read", "write", "flush">>

C11_StrictlySequential ==
    \A h \in Handlers :
        /\ \A i \in 1..Len(trace[h]) :
              /\ trace[h][i].op = LoopOrder[((i - 1) % 3) + 1]
              /\ i < Len(trace[h]) => trace[h][i].res \in {"data", "ok"}
              /\ trace[h][i].op = "write" /\ trace[h][i].res = "ok"
                    => trace[h][i].n = trace[h][i - 1].n
        /\ pc[h] = "read" =>
              \/ trace[h] = <<>>
              \/ LastEvent(h) = Event("flush", "ok", 0)
        /\ pc[h] = "Exhausted" =>
              /\ Len(trace[h]) % 3 = 1
              /\ LastEvent(h) = Event("read", "eof", 0)

C11_Witness ==
    /\ pc["h1"] = "Exhausted"
    /\ Len(trace["h1"]) = 7
    /\ trace["h1"][4] = Event("read", "data", 1)
    /\ trace["h1"][3] = Event("flush", "ok", 0)

(***************************************************************************)
(* C12: once self.write or self.flush has raised StreamClosedError, the    *)
(* call is over: it has returned at line 138, and within this call there   *)
(* is no further read, write or flush, no retry, and no change of the byte *)
(* counter.                                                                *)
(***************************************************************************)
PeerClosed(h) == EventsAt(h, {"write", "flush"}, {"StreamClosedError"}) # {}

C12_PeerClosedEndsTheCall ==
    [][\A h \in Handlers :
          (PeerClosed(h) /\ calls'[h] = calls[h])
              => /\ pc[h] = "PeerDisconnected"
                 /\ pc'[h] = pc[h]
                 /\ trace'[h] = trace[h]
                 /\ bytes_downloaded'[h] = bytes_downloaded[h]
                 /\ left'[h] = left[h]]_vars

C12_Witness ==
    /\ pc["h1"] = "PeerDisconnected"
    /\ PeerClosed("h1")
    /\ Len(trace["h1"]) = 3
    /\ left["h1"] = 3
    /\ Increase("h1") = 1

(***************************************************************************)
(* C13: in every step the byte counter of a handler stays or grows; it     *)
(* grows only in the statement that follows a write that returned (line    *)
(* 132), and then by exactly the length of the chunk just written; reads,  *)
(* flushes and the terminating empty read leave it as it is.               *)
(***************************************************************************)
C13_CounterGrowsByWrittenChunk ==
    [][\A h \in Handlers :
          /\ BytesDownloaded(h)' >= BytesDownloaded(h)
          /\ BytesDownloaded(h)' # BytesDownloaded(h)
                => /\ pc[h] = "count"
                   /\ LastEvent(h).op = "write"
                   /\ LastEvent(h).res = "ok"
                   /\ BytesDownloaded(h)' = BytesDownloaded(h) + LastEvent(h).n
          /\ (pc[h] = "count" /\ pc'[h] # "count")
                => BytesDownloaded(h)' = BytesDownloaded(h) + LastEvent(h).n]_vars

C13_Witness ==
    /\ pc["h1"] = "del"
    /\ LastEvent("h1") = Event("write", "ok", 1)
    /\ CHUNK_SIZE = 2
    /\ base["h1"] = 2
    /\ Increase("h1") = 3

(***************************************************************************)
(* C14: whatever the header, a value parse_request_range returns that is   *)
(* not None is a pair (start, end) with start >= 0 and end either None or  *)
(* at least start.                                                         *)
(***************************************************************************)
C14_ReturnedPairIsOrdered ==
    (rpc = "done" /\ result.kind = "return" /\ result.value # None)
        => LET start == result.value[1][1]
               end == result.value[1][2]
           IN  /\ start >= 0
               /\ end = None \/ (end[1] >= start /\ end[1] >= 0)

C14_Witness ==
    /\ rpc = "done"
    /\ header = ClosedHeader(2, 2)
    /\ result = Return(Some(<<2, Some(2)>>))

\* The parser also returns a pair for headers outside the documented forms.
C14_WitnessDoubleMinus ==
    /\ rpc = "done"
    /\ header = Some(BytesEq \o <<"-", "-", "1">>)
    /\ result = Return(Some(<<1, None>>))

(***************************************************************************)
(* What the call of handler h holds: the objects its frame refers to and   *)
(* their bytes.                                                            *)
(***************************************************************************)
Size(o) == IF o = None THEN 0 ELSE o[1].len

HeldObjects(h) == Cardinality({v \in {"chunk", "temp"} :
                                  IF v = "chunk" THEN chunk[h] # None ELSE temp[h] # None})

HeldBytes(h) == Size(chunk[h]) + Size(temp[h])

(***************************************************************************)
(* C15, as claimed: at every instant the call holds at most one chunk, of  *)
(* at most CHUNK_SIZE bytes, and none while it waits for the flush.        *)
(***************************************************************************)
C15_AtMostOneChunkHeld ==
    \A h \in Handlers :
        /\ HeldObjects(h) <= 1
        /\ HeldBytes(h) <= CHUNK_SIZE
        /\ pc[h] = "flush" => HeldObjects(h) = 0

(***************************************************************************)
(* C15, amended: the local `chunk` names at most one chunk of at most      *)
(* CHUNK_SIZE bytes, and none while the call waits for the flush or for    *)
(* the read; the call holds more only inside line 130, where a bytearray   *)
(* and the bytes copy made of it coexist (at most 2 * CHUNK_SIZE bytes)    *)
(* until the name is rebound.  The bounds do not depend on K.              *)
(***************************************************************************)
C15_OneChunkButForTheCopy ==
    \A h \in Handlers :
        /\ Size(chunk[h]) <= CHUNK_SIZE
        /\ pc[h] \in {"flush", "read", "idle"} \cup Terminal => HeldObjects(h) = 0
        /\ pc[h] # "rebind" => (HeldObjects(h) <= 1 /\ HeldBytes(h) <= CHUNK_SIZE)
        /\ pc[h] = "rebind" =>
              /\ chunk[h][1].type = "bytearray"
              /\ temp[h] = Some([type |-> "bytes", len |-> chunk[h][1].len])
        /\ HeldBytes(h) <= 2 * CHUNK_SIZE

C15_Witness ==
    /\ pc["h1"] = "flush"
    /\ HeldObjects("h1") = 0
    /\ CHUNK_SIZE = 3
    /\ LastEvent("h1") = Event("write", "ok", 3)
    /\ total["h1"] = 4

\* The instant of line 130 at which two objects are held.
C15_WitnessCopy ==
    /\ pc["h1"] = "rebind"
    /\ CHUNK_SIZE = 3
    /\ HeldBytes("h1") = 6

(***************************************************************************)
(* C16: a call that has begun eventually ends, and it ends in one of three *)
(* ways: Exhausted (after an empty read), PeerDisconnected (the return of  *)
(* line 138, after a StreamClosedError) or with an exception propagated to *)
(* the caller; there is no other place where a call stops.                 *)
(***************************************************************************)
Running(h) == pc[h] \notin {"idle"} \cup Terminal

EndsInOneOfThreeWays(h) ==
    /\ (calls[h] > 0 /\ ~ENABLED RelayStep(h)) => pc[h] \in Terminal
    /\ pc[h] \in Terminal => ~ENABLED RelayStep(h)
    /\ pc[h] = "Exhausted" => LastEvent(h) = Event("read", "eof", 0)
    /\ pc[h] = "PeerDisconnected" => LastEvent(h).res = "StreamClosedError"
    /\ pc[h] = "Raised" => LastEvent(h).res = "OtherError"

C16_CallEndsInOneOfThreeWays ==
    /\ [](\A h \in Handlers : EndsInOneOfThreeWays(h))
    /\ \A h \in Handlers : Running(h) ~> (pc[h] \in Terminal)

C16_Witness ==
    /\ pc["h1"] = "Raised"
    /\ calls["h1"] = 2
    /\ Len(trace["h1"]) = 4
    /\ left["h1"] = 2

(***************************************************************************)
(* C17: throughout a call, the increase of bytes_downloaded since the call *)
(* began is the total length of the chunks whose write returned, the chunk *)
(* that line 131 has just written and line 132 is about to count being the *)
(* only one not yet in it.  A chunk whose flush raised StreamClosedError   *)
(* is counted; a chunk whose write raised is not.                          *)
(***************************************************************************)
RECURSIVE SumWritten(_, _)
SumWritten(h, i) ==
    IF i = 0 THEN 0
    ELSE SumWritten(h, i - 1)
         + (IF trace[h][i].op = "write" /\ trace[h][i].res = "ok"
            THEN trace[h][i].n ELSE 0)

WrittenByCall(h) == SumWritten(h, Len(trace[h]))

AboutToCount(h) == IF pc[h] = "count" THEN LastEvent(h).n ELSE 0

C17_IncreaseIsWhatWasWritten ==
    \A h \in Handlers :
        /\ Increase(h) + AboutToCount(h) = WrittenByCall(h)
        /\ (pc[h] = "PeerDisconnected" /\ LastEvent(h).op = "flush")
               => \E i \in EventsAt(h, {"write"}, {"ok"}) :
                      /\ i = Len(trace[h]) - 1
                      /\ Increase(h) >= trace[h][i].n
        /\ (pc[h] \in Terminal /\ LastEvent(h).op = "write")
               => /\ LastEvent(h).res \in Exceptions
                  /\ Increase(h) < total[h] - left[h]

C17_Witness ==
    /\ pc["h1"] = "PeerDisconnected"
    /\ LastEvent("h1") = Event("flush", "StreamClosedError", 0)
    /\ CHUNK_SIZE = 2
    /\ total["h1"] = 4
    /\ Increase("h1") = 4

C17_WitnessWriteRaised ==
    /\ pc["h1"] = "PeerDisconnected"
    /\ LastEvent("h1").op = "write"
    /\ CHUNK_SIZE = 2
    /\ total["h1"] = 4
    /\ Increase("h1") = 2

(***************************************************************************)
(* C18: bytes_downloaded belongs to the handler and write_stream never     *)
(* resets it: it is the sum of the bytes the handler has written in all    *)
(* its calls (the chunk line 132 is about to count apart), a new call      *)
(* starts from the value the last one left, the relay of another handler   *)
(* does not change it, and the attribute of the class stays 0.             *)
(***************************************************************************)
OwnWritesOnly(h) ==
    /\ BytesDownloaded(h) + AboutToCount(h) = written[h]
    /\ BytesDownloaded(h) >= base[h]

NeverReset(h) ==
    /\ calls'[h] # calls[h] => /\ BytesDownloaded(h)' = BytesDownloaded(h)
                               /\ base'[h] = BytesDownloaded(h)
    /\ (\E g \in Handlers \ {h} : pc'[g] # pc[g])
           => BytesDownloaded(h)' = BytesDownloaded(h)

C18_CounterIsPerHandler ==
    /\ [](cls_bytes_downloaded = 0 /\ \A h \in Handlers : OwnWritesOnly(h))
    /\ [][\A h \in Handlers : NeverReset(h)]_vars

C18_Witness ==
    /\ pc["h1"] = "flush"
    /\ pc["h2"] = "read"
    /\ calls["h1"] = 2
    /\ calls["h2"] = 1
    /\ base["h1"] = 2
    /\ BytesDownloaded("h1") = 3
    /\ BytesDownloaded("h2") = 1
    /\ left["h2"] = 1
    /\ cls_bytes_downloaded = 0

(***************************************************************************)
(* C19: set_default_headers sets no header when the request has no Origin. *)
(* With an Origin, Access-Control-Allow-Origin is unset, the Origin, or    *)
(* the configured string; as first stated, it is the Origin only if the    *)
(* method is OPTIONS, or the request has no cookies and an Authorization   *)
(* header, or the configured value is '*', or the Origin is a member of    *)
(* the configured collection, and it is never '*'.                         *)
(***************************************************************************)
AllowOriginValues ==
    {x.value : x \in {y \in response_headers : y.name = "Access-Control-Allow-Origin"}}

AllowOriginIs(v) == AllowOriginValues = {v}

NoOriginNoHeader ==
    (cpc = "done" /\ ~Truthy(request.origin)) => response_headers = {}

OriginOrConfigured ==
    (cpc = "done" /\ Truthy(request.origin))
        => \/ AllowOriginValues = {}
           \/ AllowOriginIs(request.origin[1])
           \/ CORS_ALLOW_ORIGIN.str /\ AllowOriginIs(CORS_ALLOW_ORIGIN.value)

EchoConditions ==
    \/ request.method = "OPTIONS"
    \/ ~request.cookies /\ Truthy(request.authorization)
    \/ CORS_ALLOW_ORIGIN.str /\ CORS_ALLOW_ORIGIN.value = "*"
    \/ ~CORS_ALLOW_ORIGIN.str /\ request.origin[1] \in CORS_ALLOW_ORIGIN.members

C19_AllowOriginAsStated ==
    /\ NoOriginNoHeader
    /\ OriginOrConfigured
    /\ (cpc = "done" /\ Truthy(request.origin))
          => /\ AllowOriginIs(request.origin[1]) => EchoConditions
             /\ ~AllowOriginIs("*")

\* C19, amended: the header is also the Origin when the configured string is
\* the Origin itself, and it is '*' only when the Origin of the request is '*'.
C19_AllowOrigin ==
    /\ NoOriginNoHeader
    /\ OriginOrConfigured
    /\ (cpc = "done" /\ Truthy(request.origin))
          => /\ AllowOriginIs(request.origin[1])
                   => \/ EchoConditions
                      \/ /\ CORS_ALLOW_ORIGIN.str
                         /\ CORS_ALLOW_ORIGIN.value = request.origin[1]
             /\ AllowOriginIs("*") => request.origin = Some("*")

C19_Witness ==
    /\ cpc = "done"
    /\ request.method = "GET"
    /\ request.cookies
    /\ request.origin = Some("a")
    /\ CORS_ALLOW_ORIGIN = [str |-> TRUE, value |-> "a", members |-> {}]
    /\ AllowOriginIs("a")
    /\ Cardinality(response_headers) = 5
    /\ [name |-> "Access-Control-Allow-Headers",
        value |-> "Range, Content-Type, Authorization, Cache-Control, X-Requested-With"]
           \in response_headers

C19_WitnessWildcardOrigin ==
    /\ cpc = "done"
    /\ request.origin = Some("*")
    /\ CORS_ALLOW_ORIGIN.value = "*"
    /\ AllowOriginIs("*")

C19_WitnessNoOrigin ==
    /\ cpc = "done"
    /\ request.origin = Some("")
    /\ request.method = "OPTIONS"
    /\ response_headers = {}

====
